---- MODULE Spec2Model ----
(***************************************************************************)
(* Evaluation harness of src/evaluate.py: run_evaluation (metric           *)
(* resolution, the evaluation run, result materialisation) and             *)
(* latency_wrapper, as a state machine.                                    *)
(*                                                                         *)
(* Mappings (python dicts) are functions with a domain of strings. A       *)
(* callable is represented by the number of latency_wrapper partials       *)
(* around the raw target (0 = the raw target). An optional value is a      *)
(* sequence of length 0 (absent) or 1.                                     *)
(***************************************************************************)
EXTENDS Integers, Sequences, FiniteSets, TLC

\* ---- bounds of the model
MaxMetrics == 2     \* longest metric list a run is given
MaxRows == 2        \* largest dataset
MaxRuns == 2        \* runs in a sequence of runs on one callable (SpecRuns)
MaxWrap == 2        \* deepest nesting of a directly called wrapper (SpecWrapper)
MaxDur == 2         \* longest invocation of a directly called callable
MaxClock == 1       \* latest clock reading at a direct call

VARIABLES
    pc,                \* position of the program
    runs,              \* number of run_evaluation calls started
    caller_func,       \* the callable object the caller holds and passes in
    prior_wrapped,     \* some earlier run wrapped its local completion_func
    metrics,           \* run_evaluation parameter: list of metric names
    output_path,       \* run_evaluation parameter: None or a path
    data,              \* the dataset rows read from evaluation_data_path
    completion_func,   \* run_evaluation's local reference to the target
    i,                 \* position of the for loop over metrics (1-based)
    evaluators,        \* local dict metric name -> evaluator
    evaluators_config, \* local dict metric name -> binding table
    error,             \* exception raised by run_evaluation
    evaluate_called,   \* the external evaluate call was made in this run
    target_calls,      \* invocations of the raw target in this run
    r,                 \* row being processed by evaluate (1-based)
    rows,              \* result rows collected by evaluate
    returned,          \* value returned by run_evaluation (optional)
    files,             \* file system: path -> lines written
    wrote,             \* to_json wrote a file in this run
    stack,             \* open latency_wrapper frames: their start_time
    now,               \* time.time()
    ret,               \* value being returned up the call stack (optional)
    exc,               \* exception propagating up the call stack
    f_ret,             \* what the raw callable returned (optional)
    f_exc,             \* what the raw callable raised
    f_dur,             \* how long the raw callable ran
    measured           \* latency computed by the last wrapper frame, -1 if none

vars == <<pc, runs, caller_func, prior_wrapped, metrics, output_path, data,
          completion_func, i, evaluators, evaluators_config, error,
          evaluate_called, target_calls, r, rows, returned, files, wrote,
          stack, now, ret, exc, f_ret, f_exc, f_dur, measured>>

runVars == <<runs, caller_func, prior_wrapped, metrics, output_path, data,
             i, evaluators, evaluators_config, error, evaluate_called,
             r, rows, returned, files, wrote>>

\* ---- values

None == "None"
NoError == [type |-> "none", arg |-> "none"]
EmptyDict == <<>>
Range(s) == {s[k] : k \in DOMAIN s}
SeqsUpTo(S, n) == UNION {[1..k -> S] : k \in 0..n}

\* choices of the --metrics argument
CliChoices ==
    {"coherence", "f1score", "fluency", "groundedness", "relevance",
     "similarity", "qa", "chat", "latency"}

\* the branches of the if/elif chain of run_evaluation
RegisteredMetrics ==
    {"coherence", "f1score", "fluency", "groundedness", "relevance",
     "similarity", "qa", "latency"}

OutputPaths == {"out.jsonl"}

\* variant of Entry: the fluency branch carries the f1score bindings
EntryFluencyTypo(metric_name) ==
    CASE metric_name = "coherence" ->
           [evaluator |-> "CoherenceEvaluator", wraps |-> FALSE,
            config |-> [question |-> "${data.chat_input}",
                        answer |-> "${target.reply}"]]
      [] metric_name = "f1score" ->
           [evaluator |-> "F1ScoreEvaluator", wraps |-> FALSE,
            config |-> [answer |-> "${target.reply}",
                        ground_truth |-> "${data.ground_truth}"]]
      [] metric_name = "fluency" ->
           [evaluator |-> "FluencyEvaluator", wraps |-> FALSE,
            config |-> [answer |-> "${target.reply}",
                        ground_truth |-> "${data.ground_truth}"]]
      [] metric_name = "groundedness" ->
           [evaluator |-> "GroundednessEvaluator", wraps |-> FALSE,
            config |-> [answer |-> "${target.reply}",
                        context |-> "${target.context}"]]
      [] metric_name = "relevance" ->
           [evaluator |-> "RelevanceEvaluator", wraps |-> FALSE,
            config |-> [question |-> "${data.chat_input}",
                        answer |-> "${target.reply}",
                        context |-> "${target.context}"]]
      [] metric_name = "similarity" ->
           [evaluator |-> "SimilarityEvaluator", wraps |-> FALSE,
            config |-> [question |-> "${data.chat_input}",
                        answer |-> "${target.reply}",
                        ground_truth |-> "${data.ground_truth}"]]
      [] metric_name = "qa" ->
           [evaluator |-> "QAEvaluator", wraps |-> FALSE,
            config |-> [question |-> "${data.chat_input}",
                        answer |-> "${target.reply}",
                        context |-> "${target.context}",
                        ground_truth |-> "${data.ground_truth}"]]
      [] metric_name = "latency" ->
           [evaluator |-> "CustomFieldEvaluator", wraps |-> TRUE,
            config |-> [latency |-> "${target.latency}"]]

\* the evaluator and binding table a branch of the chain assigns, and
\* whether the branch wraps completion_func
Entry(metric_name) ==
    CASE metric_name = "coherence" ->
           [evaluator |-> "CoherenceEvaluator", wraps |-> FALSE,
            config |-> [question |-> "${data.chat_input}",
                        answer |-> "${target.reply}"]]
      [] metric_name = "f1score" ->
           [evaluator |-> "F1ScoreEvaluator", wraps |-> FALSE,
            config |-> [answer |-> "${target.reply}",
                        ground_truth |-> "${data.ground_truth}"]]
      [] metric_name = "fluency" ->
           [evaluator |-> "FluencyEvaluator", wraps |-> FALSE,
            config |-> [question |-> "${data.chat_input}",
                        answer |-> "${target.reply}"]]
      [] metric_name = "groundedness" ->
           [evaluator |-> "GroundednessEvaluator", wraps |-> FALSE,
            config |-> [answer |-> "${target.reply}",
                        context |-> "${target.context}"]]
      [] metric_name = "relevance" ->
           [evaluator |-> "RelevanceEvaluator", wraps |-> FALSE,
            config |-> [question |-> "${data.chat_input}",
                        answer |-> "${target.reply}",
                        context |-> "${target.context}"]]
      [] metric_name = "similarity" ->
           [evaluator |-> "SimilarityEvaluator", wraps |-> FALSE,
            config |-> [question |-> "${data.chat_input}",
                        answer |-> "${target.reply}",
                        ground_truth |-> "${data.ground_truth}"]]
      [] metric_name = "qa" ->
           [evaluator |-> "QAEvaluator", wraps |-> FALSE,
            config |-> [question |-> "${data.chat_input}",
                        answer |-> "${target.reply}",
                        context |-> "${target.context}",
                        ground_truth |-> "${data.ground_truth}"]]
      [] metric_name = "latency" ->
           [evaluator |-> "CustomFieldEvaluator", wraps |-> TRUE,
            config |-> [latency |-> "${target.latency}"]]

\* variant of Registry: "chat" has a branch of its own
RegistryWithChat ==
    [m \in RegisteredMetrics \cup {"chat"} |->
        IF m = "chat"
        THEN [evaluator |-> "ChatEvaluator", wraps |-> FALSE,
              config |-> [question |-> "${data.chat_input}",
                          answer |-> "${target.reply}"]]
        ELSE Entry(m)]

\* the metric names that reach a branch other than the final else, with
\* what the branch assigns
Registry == [m \in RegisteredMetrics |-> Entry(m)]

\* ---- latency_wrapper

\* variant of Latency: the start reading is not subtracted
LatencyNoStart(end_time, start_time) == end_time

\* latency = time.time() - start_time
Latency(end_time, start_time) == end_time - start_time

\* variant of Wrapped: {**result, "latency": latency}
WrappedLatencyLast(latency, result) == ("latency" :> latency) @@ result

\* {"latency": latency, **result}: a key of result wins over the literal key
Wrapped(latency, result) == result @@ ("latency" :> latency)

\* variant of OnRaise: the frame catches the error and returns the latency
OnRaiseSwallow(e, end_time, start_time) ==
    [exc |-> "none", ret |-> <<("latency" :> (end_time - start_time))>>]

\* an exception raised by completion_func leaves the frame as it is: the
\* frame has no handler and returns nothing
OnRaise(e, end_time, start_time) == [exc |-> e, ret |-> <<>>]

\* ---- python name binding

\* variant of CallerAfterRebind: the assignment reaches the caller's name
CallerAfterRebindShared(caller, local) == local

\* `completion_func = partial(...)` inside run_evaluation rebinds the local
\* name; the object the caller holds is what it was
CallerAfterRebind(caller, local) == caller

\* ---- the target of main(): one reply per dataset row, taking as long
\* as the row says
FlowEntry(row) ==
    [dur |-> row.chat_input, raises |-> "none",
     out |-> [reply |-> "Hello", context |-> "doc"]]

\* ---- external evaluate: reference resolution and evaluator invocation

Missing == <<>>

ResolveRef(ref, row, out) ==
    CASE ref = "${data.chat_input}" -> <<row.chat_input>>
      [] ref = "${data.ground_truth}" -> <<row.ground_truth>>
      [] ref = "${target.reply}" ->
           IF "reply" \in DOMAIN out THEN <<out.reply>> ELSE Missing
      [] ref = "${target.context}" ->
           IF "context" \in DOMAIN out THEN <<out.context>> ELSE Missing
      [] ref = "${target.latency}" ->
           IF "latency" \in DOMAIN out THEN <<out.latency>> ELSE Missing

Kwargs(config, row, out) ==
    [a \in DOMAIN config |-> ResolveRef(config[a], row, out)]

\* CustomFieldEvaluator.__call__(self, *, value, **kwargs): `value` is a
\* required keyword; the model-backed evaluators return an opaque score
EvaluatorCall(evaluator, kwargs) ==
    IF evaluator = "CustomFieldEvaluator"
    THEN IF "value" \in DOMAIN kwargs THEN kwargs.value ELSE <<"TypeError">>
    ELSE <<"score">>

ResultRow(row, out, evs, cfg) ==
    [inputs |-> row, outputs |-> out,
     scores |-> [m \in DOMAIN evs |->
                    EvaluatorCall(evs[m], Kwargs(cfg[m], row, out))]]

\* ---- result materialisation

Columns(records) == UNION {DOMAIN records[k] : k \in DOMAIN records}

\* variant of DataFrame: the last record is dropped
DataFrameDropLast(records) ==
    [k \in 1..(Len(records) - 1) |->
        [c \in Columns(records) |->
            IF c \in DOMAIN records[k] THEN <<records[k][c]>> ELSE <<>>]]

\* pd.DataFrame(list of dicts): one table row per record in list order,
\* the columns are the union of the keys, an absent cell is NaN (<<>>)
DataFrame(records) ==
    [k \in 1..Len(records) |->
        [c \in Columns(records) |->
            IF c \in DOMAIN records[k] THEN <<records[k][c]>> ELSE <<>>]]

\* to_json(orient="records", lines=True): one object per table row in
\* table order, NaN written as null
ToJsonLines(table) ==
    [k \in 1..Len(table) |->
        [c \in DOMAIN table[k] |->
            IF Len(table[k][c]) = 0 THEN <<"null">> ELSE table[k][c]]]

\* variant of ToJsonWrites: a file is written whatever the argument
ToJsonWritesAlways(path_or_buf) == TRUE

\* to_json(path_or_buf): with None the text is returned and nothing is
\* written
ToJsonWrites(path_or_buf) == path_or_buf # None

\* ---- initial state: nothing has run

Init ==
    /\ pc = "idle"
    /\ runs = 0
    /\ caller_func = 0
    /\ prior_wrapped = FALSE
    /\ metrics = <<>>
    /\ output_path = None
    /\ data = <<>>
    /\ completion_func = 0
    /\ i = 1
    /\ evaluators = EmptyDict
    /\ evaluators_config = EmptyDict
    /\ error = NoError
    /\ evaluate_called = FALSE
    /\ target_calls = 0
    /\ r = 1
    /\ rows = <<>>
    /\ returned = <<>>
    /\ files = EmptyDict
    /\ wrote = FALSE
    /\ stack = <<>>
    /\ now = 0
    /\ ret = <<>>
    /\ exc = "none"
    /\ f_ret = <<>>
    /\ f_exc = "none"
    /\ f_dur = 0
    /\ measured = -1

\* ---- run_evaluation

\* a caller calls run_evaluation(completion_func=<its callable>, ...)
StartRun(names, maxRuns) ==
    /\ pc \in {"idle", "done", "failed"}
    /\ runs < maxRuns
    /\ \E ms \in SeqsUpTo(names, MaxMetrics), n \in 0..MaxRows,
          path \in {None} \cup OutputPaths :
        /\ metrics' = ms
        /\ data' = [k \in 1..n |-> [chat_input |-> k, ground_truth |-> "truth"]]
        /\ output_path' = path
    /\ runs' = runs + 1
    /\ prior_wrapped' = (prior_wrapped \/ completion_func > 0)
    /\ completion_func' = caller_func
    /\ i' = 1
    /\ evaluators' = EmptyDict
    /\ evaluators_config' = EmptyDict
    /\ error' = NoError
    /\ evaluate_called' = FALSE
    /\ target_calls' = 0
    /\ r' = 1
    /\ rows' = <<>>
    /\ returned' = <<>>
    /\ wrote' = FALSE
    /\ stack' = <<>>
    /\ now' = 0
    /\ ret' = <<>>
    /\ exc' = "none"
    /\ f_ret' = <<>>
    /\ f_exc' = "none"
    /\ f_dur' = 0
    /\ measured' = -1
    /\ pc' = "resolve"
    /\ UNCHANGED <<caller_func, files>>

\* one iteration of `for metric_name in metrics`
ResolveMetric ==
    /\ pc = "resolve"
    /\ i <= Len(metrics)
    /\ LET metric_name == metrics[i] IN
        IF metric_name \in DOMAIN Registry
        THEN LET e == Registry[metric_name]
                 wrapped == completion_func + 1 IN
             /\ completion_func' = IF e.wraps THEN wrapped ELSE completion_func
             /\ caller_func' = IF e.wraps
                               THEN CallerAfterRebind(caller_func, wrapped)
                               ELSE caller_func
             /\ evaluators' = (metric_name :> e.evaluator) @@ evaluators
             /\ evaluators_config' = (metric_name :> e.config) @@ evaluators_config
             /\ i' = i + 1
             /\ UNCHANGED <<pc, error>>
        ELSE /\ error' = [type |-> "ValueError", arg |-> metric_name]
             /\ pc' = "failed"
             /\ UNCHANGED <<completion_func, caller_func, evaluators,
                            evaluators_config, i>>
    /\ UNCHANGED <<runs, prior_wrapped, metrics, output_path, data,
                   evaluate_called, target_calls, r, rows, returned, files,
                   wrote, stack, now, ret, exc, f_ret, f_exc, f_dur, measured>>

\* result = evaluate(target=completion_func, ...): the call is made
CallEvaluate ==
    /\ pc = "resolve"
    /\ i > Len(metrics)
    /\ evaluate_called' = TRUE
    /\ r' = 1
    /\ rows' = <<>>
    /\ pc' = "evaluate"
    /\ UNCHANGED <<runs, caller_func, prior_wrapped, metrics, output_path,
                   data, completion_func, i, evaluators, evaluators_config,
                   error, target_calls, returned, files, wrote, stack, now,
                   ret, exc, f_ret, f_exc, f_dur, measured>>

\* evaluate takes the next dataset row and calls target(**row)
EvaluateRow ==
    /\ pc = "evaluate"
    /\ r <= Len(data)
    /\ pc' = "call"
    /\ ret' = <<>>
    /\ f_ret' = <<>>
    /\ measured' = -1
    /\ UNCHANGED <<runVars, completion_func, target_calls, stack, now, exc,
                   f_exc, f_dur>>

\* a latency_wrapper partial is entered: start_time = time.time(), then
\* completion_func(*args, **kwargs) is called
LatencyWrapperEnter(overheads) ==
    /\ pc = "call"
    /\ Len(stack) < completion_func
    /\ stack' = Append(stack, now)
    /\ \E t \in overheads : now' = now + t
    /\ UNCHANGED <<runVars, pc, completion_func, target_calls, ret, exc,
                   f_ret, f_exc, f_dur, measured>>

\* the raw callable runs: it returns a mapping or raises
Invoke(behaviours) ==
    /\ pc = "call"
    /\ Len(stack) = completion_func
    /\ \E b \in behaviours :
        /\ now' = now + b.dur
        /\ f_dur' = b.dur
        /\ f_exc' = b.raises
        /\ exc' = b.raises
        /\ IF b.raises = "none"
           THEN /\ ret' = <<b.out>>
                /\ f_ret' = <<b.out>>
                /\ pc' = "return"
           ELSE /\ ret' = <<>>
                /\ f_ret' = <<>>
                /\ pc' = "raise"
    /\ target_calls' = target_calls + 1
    /\ UNCHANGED <<runVars, completion_func, stack, measured>>

TargetInvoke ==
    /\ r \in DOMAIN data
    /\ Invoke({FlowEntry(data[r])})

\* completion_func returned into a latency_wrapper frame:
\* latency = time.time() - start_time; return {"latency": latency, **result}
LatencyWrapperExit ==
    /\ pc = "return"
    /\ stack # <<>>
    /\ LET start_time == stack[Len(stack)]
           latency == Latency(now, start_time) IN
        /\ ret' = <<Wrapped(latency, ret[1])>>
        /\ measured' = latency
    /\ stack' = SubSeq(stack, 1, Len(stack) - 1)
    /\ UNCHANGED <<runVars, pc, completion_func, target_calls, now, exc,
                   f_ret, f_exc, f_dur>>

\* completion_func raised into a latency_wrapper frame
LatencyWrapperRaise ==
    /\ pc = "raise"
    /\ stack # <<>>
    /\ LET o == OnRaise(exc, now, stack[Len(stack)]) IN
        /\ exc' = o.exc
        /\ ret' = o.ret
        /\ pc' = IF o.exc = "none" THEN "return" ELSE "raise"
    /\ stack' = SubSeq(stack, 1, Len(stack) - 1)
    /\ UNCHANGED <<runVars, completion_func, target_calls, now, f_ret,
                   f_exc, f_dur, measured>>

\* the target returned to evaluate: every bound evaluator is invoked on
\* the row (one time unit each) and the result row is collected
InvokeEvaluators ==
    /\ pc = "return"
    /\ stack = <<>>
    /\ rows' = Append(rows, ResultRow(data[r], ret[1], evaluators,
                                      evaluators_config))
    /\ now' = now + Cardinality(DOMAIN evaluators)
    /\ r' = r + 1
    /\ pc' = "evaluate"
    /\ UNCHANGED <<runs, caller_func, prior_wrapped, metrics, output_path,
                   data, completion_func, i, evaluators, evaluators_config,
                   error, evaluate_called, target_calls, returned, files,
                   wrote, stack, ret, exc, f_ret, f_exc, f_dur, measured>>

\* evaluate returned: tabular_result = pd.DataFrame(result.get("rows"));
\* tabular_result.to_json(output_path, ...); return result, tabular_result
Materialize ==
    /\ pc = "evaluate"
    /\ r > Len(data)
    /\ LET result == [rows |-> rows]
           tabular_result == DataFrame(result.rows) IN
        /\ files' = IF ToJsonWrites(output_path)
                    THEN (output_path :> ToJsonLines(tabular_result)) @@ files
                    ELSE files
        /\ wrote' = ToJsonWrites(output_path)
        /\ returned' = <<[result |-> result, tabular_result |-> tabular_result]>>
    /\ pc' = "done"
    /\ UNCHANGED <<runs, caller_func, prior_wrapped, metrics, output_path,
                   data, completion_func, i, evaluators, evaluators_config,
                   error, evaluate_called, target_calls, r, rows, stack, now,
                   ret, exc, f_ret, f_exc, f_dur, measured>>

\* ---- one run_evaluation call on any metric list the CLI accepts (or the
\* empty list)

Next ==
    \/ StartRun(CliChoices, 1)
    \/ ResolveMetric
    \/ CallEvaluate
    \/ EvaluateRow
    \/ LatencyWrapperEnter({0})
    \/ TargetInvoke
    \/ LatencyWrapperExit
    \/ InvokeEvaluators
    \/ Materialize

Spec == Init /\ [][Next]_vars

\* ---- a sequence of run_evaluation calls on the same callable

\* metric names the runs of a sequence draw from
RunsMetricNames == {"coherence", "latency", "chat"}

NextRuns ==
    \/ StartRun(RunsMetricNames, MaxRuns)
    \/ ResolveMetric
    \/ CallEvaluate
    \/ EvaluateRow
    \/ LatencyWrapperEnter({0})
    \/ TargetInvoke
    \/ LatencyWrapperExit
    \/ InvokeEvaluators
    \/ Materialize

SpecRuns == Init /\ [][NextRuns]_vars

\* ---- latency_wrapper called directly on an arbitrary completion callable

Errors == {"TimeoutError", "RuntimeError"}

\* values a completion callable may already report under "latency"
OwnLatencies == {0, 5}

\* mappings a completion callable may return
Outputs ==
    {EmptyDict, [reply |-> "Hello"], [reply |-> "Hello", context |-> "doc"]}
    \cup {[reply |-> "Hello", latency |-> l] : l \in OwnLatencies}
    \cup {[reply |-> "Hello", context |-> "doc", latency |-> l] :
            l \in OwnLatencies}

\* what a completion callable may do when invoked
Behaviours ==
    {[dur |-> d, raises |-> "none", out |-> o] : d \in 0..MaxDur, o \in Outputs}
    \cup {[dur |-> d, raises |-> e, out |-> EmptyDict] :
            d \in 0..MaxDur, e \in Errors}

\* time that may pass between a frame's clock reading and the start of
\* the callable it wraps
CallOverheads == {0, 1}

\* partial(latency_wrapper, ... partial(latency_wrapper, f))() is called
DirectCall ==
    /\ pc \in {"idle", "return", "raise"}
    /\ stack = <<>>
    /\ \E depth \in 1..MaxWrap, t0 \in 0..MaxClock :
        /\ completion_func' = depth
        /\ now' = t0
    /\ pc' = "call"
    /\ target_calls' = 0
    /\ ret' = <<>>
    /\ exc' = "none"
    /\ f_ret' = <<>>
    /\ f_exc' = "none"
    /\ f_dur' = 0
    /\ measured' = -1
    /\ UNCHANGED <<runVars, stack>>

CompletionInvoke == Invoke(Behaviours)

NextWrapper ==
    \/ DirectCall
    \/ LatencyWrapperEnter(CallOverheads)
    \/ CompletionInvoke
    \/ LatencyWrapperExit
    \/ LatencyWrapperRaise

SpecWrapper == Init /\ [][NextWrapper]_vars

\* ======================= properties =======================

HasOutput == pc = "done" /\ Len(returned) = 1

\* the metric names the specification registers
DocumentedMetrics ==
    {"coherence", "f1score", "fluency", "groundedness", "relevance",
     "similarity", "qa", "latency"}

\* the binding tables the specification documents
DocumentedTable ==
    [m \in DocumentedMetrics |->
        CASE m \in {"coherence", "fluency"} ->
               [question |-> "${data.chat_input}", answer |-> "${target.reply}"]
          [] m = "f1score" ->
               [answer |-> "${target.reply}",
                ground_truth |-> "${data.ground_truth}"]
          [] m = "groundedness" ->
               [answer |-> "${target.reply}", context |-> "${target.context}"]
          [] m = "relevance" ->
               [question |-> "${data.chat_input}", answer |-> "${target.reply}",
                context |-> "${target.context}"]
          [] m = "similarity" ->
               [question |-> "${data.chat_input}", answer |-> "${target.reply}",
                ground_truth |-> "${data.ground_truth}"]
          [] m = "qa" ->
               [question |-> "${data.chat_input}", answer |-> "${target.reply}",
                context |-> "${target.context}",
                ground_truth |-> "${data.ground_truth}"]
          [] m = "latency" -> [latency |-> "${target.latency}"]]

RequestsUnknown == \E k \in DOMAIN metrics : metrics[k] \notin DocumentedMetrics

\* C1: a run whose metric list holds an undocumented name (such as "chat")
\* at any position never gets past metric resolution: it fails with a
\* ValueError naming that metric, evaluate is never called, the target is
\* never invoked, no row is collected, nothing is written or returned.
C1_UnknownMetricFailsFast ==
    (pc # "idle" /\ RequestsUnknown) =>
        /\ pc \in {"resolve", "failed"}
        /\ pc = "resolve" => i <= Len(metrics)
        /\ pc = "failed" =>
              /\ error.type = "ValueError"
              /\ error.arg = metrics[i]
              /\ error.arg \notin DocumentedMetrics
        /\ ~evaluate_called
        /\ target_calls = 0
        /\ rows = <<>>
        /\ ~wrote
        /\ files = EmptyDict
        /\ returned = <<>>

\* a run on a non-empty dataset that wrapped the target for "latency" and
\* then met "chat" in second position has failed
C1_Witness ==
    /\ pc = "failed"
    /\ metrics = <<"latency", "chat">>
    /\ completion_func = 1
    /\ Len(data) > 0

\* C2: when "latency" is requested, the target handed to evaluate is the
\* caller's callable wrapped exactly once, wherever and however often the
\* name occurs in the list.
C2_WrappedExactlyOnce ==
    (evaluate_called /\ "latency" \in Range(metrics)) =>
        completion_func = caller_func + 1

WrapperReturned == pc = "return" /\ measured >= 0

\* C4: the mapping a latency_wrapper frame returns holds every field of
\* the callable's own return value with the value unchanged, and no field
\* besides those and "latency".
C4_WrapperKeepsFields ==
    WrapperReturned =>
        /\ \A k \in DOMAIN f_ret[1] :
              k \in DOMAIN ret[1] /\ ret[1][k] = f_ret[1][k]
        /\ DOMAIN ret[1] \subseteq DOMAIN f_ret[1] \cup {"latency"}
        /\ "latency" \in DOMAIN ret[1]

\* the wrapper returned for a callable that reports a "latency" of its own
\* which differs from the measured one
C4_Witness ==
    /\ WrapperReturned
    /\ stack = <<>>
    /\ "latency" \in DOMAIN f_ret[1]
    /\ f_ret[1].latency # measured
    /\ "reply" \in DOMAIN ret[1]

\* C5: the "latency" field of the mapping a latency_wrapper frame returns
\* is the time the frame measured around the invocation, hence at least
\* the duration of the callable's invocation, also when the callable's
\* mapping already has a "latency" field.
C5_LatencyIsElapsed ==
    WrapperReturned =>
        /\ ret[1].latency = measured
        /\ ret[1].latency >= f_dur

\* C6: when the callable raises, every latency_wrapper frame lets the same
\* error through and no mapping is returned.
C6_RaisePropagates ==
    f_exc # "none" =>
        /\ pc = "raise"
        /\ exc = f_exc
        /\ ret = <<>>

\* a RuntimeError of the callable has left two nested wrapper frames
C6_Witness ==
    /\ pc = "raise"
    /\ stack = <<>>
    /\ completion_func = 2
    /\ f_exc = "RuntimeError"
    /\ exc = "RuntimeError"

\* C7: a run writes a file if and only if it was given an output path (so
\* none with None), and a finished run returns the result object together
\* with the table built from its rows.
C7_FileIffPath ==
    /\ output_path = None => (~wrote /\ files = EmptyDict)
    /\ pc = "done" =>
          /\ wrote <=> output_path # None
          /\ output_path # None => DOMAIN files = {output_path}
          /\ Len(returned) = 1
          /\ returned[1].result.rows = rows
          /\ Len(returned[1].tabular_result) = Len(rows)

\* a run without output path finished on two rows
C7_Witness ==
    /\ HasOutput
    /\ output_path = None
    /\ Len(rows) = 2
    /\ Len(returned[1].tabular_result) = 2

\* C8: the returned table, and the records written from it, have one row
\* per dataset row, and row k holds the result row of dataset row k.
C8_RowsInOrder ==
    pc = "done" =>
        LET t == returned[1].tabular_result IN
        /\ Len(t) = Len(data)
        /\ \A k \in 1..Len(data) :
              /\ t[k].inputs = <<data[k]>>
              /\ t[k].outputs = <<rows[k].outputs>>
              /\ t[k].scores = <<rows[k].scores>>
        /\ output_path # None =>
              /\ Len(files[output_path]) = Len(data)
              /\ \A k \in 1..Len(data) :
                    files[output_path][k].inputs = <<data[k]>>

\* a run on two rows finished and wrote its records
C8_Witness ==
    /\ HasOutput
    /\ Len(data) = 2
    /\ output_path \in OutputPaths
    /\ Len(files[output_path]) = 2

\* C9: in a run that requests "latency", a measurement is open only while
\* the target is being invoked, never while evaluators run, and the
\* latency reported for a row is the duration of that row's target
\* invocation alone.
C9_LatencyCoversTargetOnly ==
    /\ stack # <<>> => pc \in {"call", "return"}
    /\ "latency" \in Range(metrics) =>
          \A k \in DOMAIN rows :
              /\ "latency" \in DOMAIN rows[k].outputs
              /\ rows[k].outputs.latency = FlowEntry(data[k]).dur

\* a run requesting latency and coherence finished on two rows
C9_Witness ==
    /\ HasOutput
    /\ metrics = <<"latency", "coherence">>
    /\ Len(rows) = 2
    /\ rows[2].outputs.latency = 2

\* C10: run_evaluation never changes the callable the caller holds; every
\* run starts from it, so wrapping does not accumulate over runs, and a
\* run without "latency" invokes the unwrapped target and gets no
\* "latency" field, also after a run that requested it.
C10_CallerCallableUnchanged ==
    /\ caller_func = 0
    /\ pc # "idle" =>
          completion_func =
              Cardinality({k \in 1..(i - 1) : metrics[k] = "latency"})
    /\ (evaluate_called /\ "latency" \notin Range(metrics)) =>
          /\ completion_func = 0
          /\ \A k \in DOMAIN rows : "latency" \notin DOMAIN rows[k].outputs

\* a run without latency finished on some rows after a run that wrapped
C10_Witness ==
    /\ HasOutput
    /\ runs >= 2
    /\ prior_wrapped
    /\ "latency" \notin Range(metrics)
    /\ Len(rows) >= 1
    /\ target_calls = Len(rows)

====
